---- MODULE Spec2Model ----
(***************************************************************************)
(* A model of src/src/services/rfcService.ts: the RfcService cache and the *)
(* fetchRfc orchestration (HTML first, TXT as fallback), and the two       *)
(* parsers parseHtmlRfc and parseTxtRfc as pure operators.                 *)
(*                                                                         *)
(* A JavaScript string is a sequence of one-character strings.  An HTML    *)
(* document is the sequence of tokens of its serialisation, in document    *)
(* order: an opening <section>, a closing </section>, or a leaf element    *)
(* (h2..h5) with its text.  Of RfcMetadata only number and url are kept:   *)
(* the other fields are computed from the input alone and are read by no   *)
(* property below.                                                         *)
(***************************************************************************)
EXTENDS Naturals, Sequences, FiniteSets, TLC

VARIABLES
    cache,      \* RfcService.cache: a Map, here a function on the stored keys
    pc,         \* per call: "idle", "awaitHtml", "awaitTxt", "done", "failed"
    rfc,        \* per call: the rfcNumber argument
    out,        \* per call: what the promise settled with
    log,        \* per call: the requests made and how each ended (history)
    succeeded,  \* the identifiers some call resolved for (history)
    format,     \* parser run: "html", "txt", or "none" in the service runs
    input,      \* parser run: the raw input handed to the parser
    phase,      \* parser run: "input", then "parsed"
    parsed      \* parser run: the RfcContent returned

vars == <<cache, pc, rfc, out, log, succeeded, format, input, phase, parsed>>

(***************************************************************************)
(* Bounds.                                                                 *)
(***************************************************************************)
NumCalls == 2      \* fetchRfc calls that may be in flight together
MaxTextLen == 5    \* texts of up to this many characters, exhaustively
MaxLines == 4      \* texts of up to this many sample lines
MaxTokens == 4     \* HTML documents of up to this many tokens, exhaustively

Calls == 1..NumCalls
Ids == {"2616", "791"}
Causes == {"timeout", "404"}

(***************************************************************************)
(* Characters and strings.                                                 *)
(***************************************************************************)
NL == "\n"
CR == "\r"
Alphabet == {"1", ".", " ", "a", NL}
Digits == {"0", "1", "2", "3", "4", "5", "6", "7", "8", "9"}
Whitespace == {" ", "\t", NL, CR}     \* what \s and trim() take as white space
LineTerminators == {NL, CR}           \* what . does not match

\* String.prototype.trim
RECURSIVE TrimLeft(_)
TrimLeft(s) ==
    IF s # <<>> /\ Head(s) \in Whitespace THEN TrimLeft(Tail(s)) ELSE s

RECURSIVE TrimRight(_)
TrimRight(s) ==
    IF s # <<>> /\ s[Len(s)] \in Whitespace
    THEN TrimRight(SubSeq(s, 1, Len(s) - 1))
    ELSE s

Trim(s) == TrimRight(TrimLeft(s))

\* text.split('\n'): always at least one piece
RECURSIVE Split(_)
Split(text) ==
    IF \A i \in 1..Len(text) : text[i] # NL
    THEN <<text>>
    ELSE LET i == CHOOSE j \in 1..Len(text) :
                      text[j] = NL /\ \A m \in 1..(j - 1) : text[m] # NL
         IN  <<SubSeq(text, 1, i - 1)>> \o Split(SubSeq(text, i + 1, Len(text)))

\* currentContent.join('\n')
RECURSIVE Join(_)
Join(lines) ==
    IF lines = <<>> THEN <<>>
    ELSE IF Len(lines) = 1 THEN lines[1]
    ELSE lines[1] \o <<NL>> \o Join(Tail(lines))

(***************************************************************************)
(* sectionRegex = /^(?:\d+\.)+\s+(.+)$/                                    *)
(***************************************************************************)
\* s is in (?:\d+\.)+
IsGroups(s) ==
    /\ s # <<>>
    /\ s[1] \in Digits
    /\ s[Len(s)] = "."
    /\ \A i \in 1..Len(s) : s[i] \in Digits \cup {"."}
    /\ \A i \in 2..Len(s) : s[i] = "." => s[i - 1] \in Digits

\* The ways the pattern matches the whole line: <<i, j>>, the groups being
\* line[1..i], the white space line[i+1..j] and the capture line[j+1..].
Matches(line) ==
    { ij \in (1..Len(line)) \X (1..Len(line)) :
        /\ ij[1] < ij[2] /\ ij[2] < Len(line)
        /\ IsGroups(SubSeq(line, 1, ij[1]))
        /\ \A m \in (ij[1] + 1)..ij[2] : line[m] \in Whitespace
        /\ \A m \in (ij[2] + 1)..Len(line) : line[m] \notin LineTerminators }

IsHeader(line) == Matches(line) # {}

\* sectionMatch[1]: the quantifiers are greedy, so of the ways to match the
\* one found is the one with the longest groups, then the longest white space.
Capture(line) ==
    LET best == CHOOSE ij \in Matches(line) :
                    \A o \in Matches(line) :
                        \/ o[1] < ij[1]
                        \/ (o[1] = ij[1] /\ o[2] <= ij[2])
    IN  SubSeq(line, best[2] + 1, Len(line))

(***************************************************************************)
(* parseTxtRfc                                                             *)
(***************************************************************************)
Section(title, content, subsections) ==
    [title |-> title, content |-> content, subsections |-> subsections]

LoopInit == [sections |-> <<>>, hasSection |-> FALSE,
             currentSection |-> <<>>, currentContent |-> <<>>]

\* "Save previous section if exists" / "Add the last section"
FlushAlways(st) ==
    IF st.hasSection
    THEN Append(st.sections,
                Section(st.currentSection, Join(st.currentContent), <<>>))
    ELSE st.sections

Flush(st) ==
    IF st.hasSection /\ Len(st.currentContent) > 0
    THEN Append(st.sections,
                Section(st.currentSection, Join(st.currentContent), <<>>))
    ELSE st.sections

\* one iteration of "for (const line of lines)"
LoopStep(st, line) ==
    IF IsHeader(line)
    THEN [sections |-> Flush(st), hasSection |-> TRUE,
          currentSection |-> Trim(Capture(line)), currentContent |-> <<>>]
    ELSE IF st.hasSection
    THEN [st EXCEPT !.currentContent = Append(@, line)]
    ELSE st

RECURSIVE Loop(_, _)
Loop(st, lines) ==
    IF lines = <<>> THEN st ELSE Loop(LoopStep(st, Head(lines)), Tail(lines))

TxtSections(text) == Flush(Loop(LoopInit, Split(text)))

parseTxtRfc(text, rfcNumber, url) ==
    [metadata |-> [number |-> rfcNumber, url |-> url],
     sections |-> TxtSections(text),
     fullText |-> text]

(***************************************************************************)
(* The DOM JSDOM builds, as the document's tokens in document order.       *)
(***************************************************************************)
Open == [tag |-> "section", text |-> <<>>]
Close == [tag |-> "/section", text |-> <<>>]
LeafTags == {"h2", "h3", "h4", "h5"}
LeafTexts == {<<>>, <<"a">>, <<" ", "b">>}
Leaves == [tag : LeafTags, text : LeafTexts]
Tokens == {Open, Close} \cup Leaves

Balanced(tokens) ==
    /\ \A i \in 1..Len(tokens) :
           Cardinality({m \in 1..i : tokens[m] = Open})
               >= Cardinality({m \in 1..i : tokens[m] = Close})
    /\ Cardinality({m \in 1..Len(tokens) : tokens[m] = Open})
           = Cardinality({m \in 1..Len(tokens) : tokens[m] = Close})

\* the closing tag of the element opened at i
CloseOf(tokens, i) ==
    CHOOSE j \in (i + 1)..Len(tokens) :
        /\ tokens[j] = Close
        /\ Cardinality({m \in i..j : tokens[m] = Open})
               = Cardinality({m \in i..j : tokens[m] = Close})
        /\ \A k \in (i + 1)..(j - 1) :
               Cardinality({m \in i..k : tokens[m] = Open})
                   > Cardinality({m \in i..k : tokens[m] = Close})

\* el.querySelector(sel) for a selector list of tag names, within
\* tokens[lo..hi]: the first matching element in document order, 0 if none
QuerySelectorByRank(tokens, lo, hi, sel) ==
    LET hits(t) == {m \in lo..hi : tokens[m].tag = t}
        first(t) == CHOOSE m \in hits(t) : \A o \in hits(t) : m <= o
    IN  IF \E i \in 1..Len(sel) : hits(sel[i]) # {}
        THEN LET r == CHOOSE i \in 1..Len(sel) :
                          /\ hits(sel[i]) # {}
                          /\ \A o \in 1..(i - 1) : hits(sel[o]) = {}
             IN  first(sel[r])
        ELSE 0

QuerySelector(tokens, lo, hi, sel) ==
    LET hits == {m \in lo..hi : \E i \in 1..Len(sel) : tokens[m].tag = sel[i]}
    IN  IF hits = {} THEN 0 ELSE CHOOSE m \in hits : \A o \in hits : m <= o

\* el.querySelectorAll('section') within tokens[lo..hi], in document order
RECURSIVE Ascending(_)
Ascending(S) ==
    IF S = {} THEN <<>>
    ELSE LET m == CHOOSE x \in S : \A y \in S : x <= y
         IN  <<m>> \o Ascending(S \ {m})

QuerySelectorAllSection(tokens, lo, hi) ==
    Ascending({m \in lo..hi : tokens[m] = Open})

\* node.textContent of tokens[lo..hi]
RECURSIVE TextContent(_, _, _)
TextContent(tokens, lo, hi) ==
    IF lo > hi THEN <<>>
    ELSE tokens[lo].text \o TextContent(tokens, lo + 1, hi)

\* el.querySelector(sel)?.textContent?.trim() || ''
HeadingText(tokens, lo, hi, sel) ==
    LET h == QuerySelector(tokens, lo, hi, sel)
    IN  IF h = 0 THEN <<>> ELSE Trim(tokens[h].text)

\* el.innerHTML of the element opened at i
InnerHTML(tokens, i) == SubSeq(tokens, i + 1, CloseOf(tokens, i) - 1)

(***************************************************************************)
(* parseHtmlRfc                                                            *)
(***************************************************************************)
SectionSel == <<"h2", "h3", "h4">>
SubsectionSel == <<"h3", "h4", "h5">>

\* the inner loop over sectionEl.querySelectorAll('section')
RECURSIVE Subsections(_, _)
Subsections(tokens, els) ==
    IF els = <<>> THEN <<>>
    ELSE LET i == Head(els)
             t == HeadingText(tokens, i + 1, CloseOf(tokens, i) - 1, SubsectionSel)
         IN  (IF t # <<>>
              THEN <<[title |-> t, content |-> InnerHTML(tokens, i)]>>
              ELSE <<>>)
             \o Subsections(tokens, Tail(els))

\* "if (sectionTitle)"
KeepSection(sectionTitle) == sectionTitle # <<>>

\* the loop over document.querySelectorAll('section'); undefined
\* subsections are the empty sequence (an empty list is never stored)
RECURSIVE HtmlSections(_, _)
HtmlSections(tokens, els) ==
    IF els = <<>> THEN <<>>
    ELSE LET i == Head(els)
             j == CloseOf(tokens, i)
             sectionTitle == HeadingText(tokens, i + 1, j - 1, SectionSel)
             subs == Subsections(tokens,
                         QuerySelectorAllSection(tokens, i + 1, j - 1))
         IN  (IF KeepSection(sectionTitle)
              THEN <<Section(sectionTitle, InnerHTML(tokens, i), subs)>>
              ELSE <<>>)
             \o HtmlSections(tokens, Tail(els))

\* a fullText put together from the section elements only
SectionsFullText(tokens) ==
    LET inside == {m \in 1..Len(tokens) :
                      \E i \in 1..Len(tokens) :
                          tokens[i] = Open /\ i < m /\ m < CloseOf(tokens, i)}
        pick(m) == IF m \in inside THEN tokens[m].text ELSE <<>>
        texts[m \in 0..Len(tokens)] ==
            IF m = 0 THEN <<>> ELSE texts[m - 1] \o pick(m)
    IN  Trim(texts[Len(tokens)])

\* document.querySelector('body')?.textContent?.trim() || ''

HtmlFullText(tokens) == Trim(TextContent(tokens, 1, Len(tokens)))

parseHtmlRfc(html, rfcNumber, url) ==
    [metadata |-> [number |-> rfcNumber, url |-> url],
     sections |-> HtmlSections(html,
                      QuerySelectorAllSection(html, 1, Len(html))),
     fullText |-> HtmlFullText(html)]

(***************************************************************************)
(* Inputs of the parser runs.                                              *)
(***************************************************************************)
SeqsUpTo(S, n) == UNION {[1..m -> S] : m \in 0..n}

SampleLines ==
    { <<>>,                                        \* a blank line
      <<"a">>,                                     \* body text
      <<"1", ".", " ", "a">>,                      \* "1. a"
      <<"2", ".", "1", ".", " ", " ", "b", " ">>,  \* "2.1.  b "
      <<"1", ".", " ", " ">>,                      \* "1.  "
      <<"1", ".", "a">>,                           \* "1.a"
      <<"1", ".", " ", "a", CR>> }                 \* "1. a" of a CRLF file

CharTexts == SeqsUpTo(Alphabet, MaxTextLen)
LineTexts == {Join(ls) : ls \in SeqsUpTo(SampleLines, MaxLines) \ {<<>>}}
TxtInputs == CharTexts \cup LineTexts

HtmlInputs == {ts \in SeqsUpTo(Tokens, MaxTokens) : Balanced(ts)}

(***************************************************************************)
(* What the remote may answer in the service runs.                         *)
(***************************************************************************)
HtmlBodies ==
    { <<Open, [tag |-> "h2", text |-> <<"a">>], Close>>,
      <<[tag |-> "h3", text |-> <<" ", "b">>]>> }

TxtBodies ==
    { <<"1", ".", " ", "a", NL, "a">> }

baseUrl == "https://www.ietf.org/rfc"
TxtUrl(rfcNumber) == <<baseUrl, "/rfc", rfcNumber, ".txt">>
HtmlUrl(rfcNumber) == <<baseUrl, "/rfc", rfcNumber, "/">>

Get(url) == [ev |-> "GET", url |-> url, cause |-> ""]
Ok(url) == [ev |-> "OK", url |-> url, cause |-> ""]
Err(url, cause) == [ev |-> "ERR", url |-> url, cause |-> cause]
Threw(url) == [ev |-> "THROW", url |-> url, cause |-> ""]

NoDoc == [metadata |-> [number |-> "", url |-> <<>>],
          sections |-> <<>>, fullText |-> <<>>]
Pending == [kind |-> "pending", doc |-> NoDoc, message |-> <<>>]
Resolved(doc) == [kind |-> "doc", doc |-> doc, message |-> <<>>]
Rejected(message) == [kind |-> "error", doc |-> NoDoc, message |-> message]

\* new Error(`Failed to fetch RFC ${rfcNumber}: ${txtError}`)
CompositeError(rfcNumber, txtError) ==
    <<"Failed to fetch RFC ", rfcNumber, ": ", txtError>>

(***************************************************************************)
(* fetchRfc.  Each action is one run-to-completion stretch of the async    *)
(* function: from the call, or from the settling of an awaited request, to *)
(* the next await or to the return.                                        *)
(***************************************************************************)
ParserIdle ==
    /\ format = "none" /\ input = <<>> /\ phase = "input" /\ parsed = NoDoc

Init ==
    /\ cache = <<>>
    /\ pc = [c \in Calls |-> "idle"]
    /\ rfc = [c \in Calls |-> ""]
    /\ out = [c \in Calls |-> Pending]
    /\ log = [c \in Calls |-> <<>>]
    /\ succeeded = {}
    /\ ParserIdle

\* this.cache.set(rfcNumber, rfc)
CacheSet(rfcNumber, doc) ==
    [k \in DOMAIN cache \cup {rfcNumber} |->
        IF k = rfcNumber THEN doc ELSE cache[k]]

\* the cache is not looked at
CallHitRefetch(c, rfcNumber) ==
    /\ pc[c] = "idle"
    /\ rfcNumber \in DOMAIN cache
    /\ pc' = [pc EXCEPT ![c] = "awaitHtml"]
    /\ rfc' = [rfc EXCEPT ![c] = rfcNumber]
    /\ out' = [out EXCEPT ![c] = Pending]
    /\ log' = [log EXCEPT ![c] = <<Get(HtmlUrl(rfcNumber))>>]
    /\ UNCHANGED <<cache, succeeded, format, input, phase, parsed>>

\* the cache holds rfcNumber: return it
CallHit(c, rfcNumber) ==
    /\ pc[c] = "idle"
    /\ rfcNumber \in DOMAIN cache
    /\ pc' = [pc EXCEPT ![c] = "done"]
    /\ rfc' = [rfc EXCEPT ![c] = rfcNumber]
    /\ out' = [out EXCEPT ![c] = Resolved(cache[rfcNumber])]
    /\ log' = [log EXCEPT ![c] = <<>>]
    /\ succeeded' = succeeded \cup {rfcNumber}
    /\ UNCHANGED <<cache, format, input, phase, parsed>>

\* the cache does not: request the HTML and await it
CallMiss(c, rfcNumber) ==
    /\ pc[c] = "idle"
    /\ rfcNumber \notin DOMAIN cache
    /\ pc' = [pc EXCEPT ![c] = "awaitHtml"]
    /\ rfc' = [rfc EXCEPT ![c] = rfcNumber]
    /\ out' = [out EXCEPT ![c] = Pending]
    /\ log' = [log EXCEPT ![c] = <<Get(HtmlUrl(rfcNumber))>>]
    /\ UNCHANGED <<cache, succeeded, format, input, phase, parsed>>

\* the HTML request resolves and parseHtmlRfc returns
HtmlOk(c, html) ==
    /\ pc[c] = "awaitHtml"
    /\ LET doc == parseHtmlRfc(html, rfc[c], HtmlUrl(rfc[c]))
       IN  /\ cache' = CacheSet(rfc[c], doc)
           /\ out' = [out EXCEPT ![c] = Resolved(doc)]
    /\ pc' = [pc EXCEPT ![c] = "done"]
    /\ log' = [log EXCEPT ![c] = Append(@, Ok(HtmlUrl(rfc[c])))]
    /\ succeeded' = succeeded \cup {rfc[c]}
    /\ UNCHANGED <<rfc, format, input, phase, parsed>>

\* the catch block: request the TXT and await it
Fallback(c, event) ==
    /\ pc' = [pc EXCEPT ![c] = "awaitTxt"]
    /\ log' = [log EXCEPT ![c] = @ \o <<event, Get(TxtUrl(rfc[c]))>>]
    /\ UNCHANGED <<cache, rfc, out, succeeded, format, input, phase, parsed>>

\* the HTML request rejects and is tried again
HtmlFailRetry(c, cause) ==
    /\ pc[c] = "awaitHtml"
    /\ log' = [log EXCEPT ![c] =
                  @ \o <<Err(HtmlUrl(rfc[c]), cause), Get(HtmlUrl(rfc[c]))>>]
    /\ UNCHANGED <<cache, pc, rfc, out, succeeded, format, input, phase, parsed>>

\* the HTML request rejects
HtmlFail(c, cause) ==
    /\ pc[c] = "awaitHtml"
    /\ Fallback(c, Err(HtmlUrl(rfc[c]), cause))

\* parseHtmlRfc throws outside the try block
HtmlParseThrowsUncaught(c) ==
    /\ pc[c] = "awaitHtml"
    /\ pc' = [pc EXCEPT ![c] = "failed"]
    /\ out' = [out EXCEPT ![c] = Rejected(<<"TypeError">>)]
    /\ log' = [log EXCEPT ![c] = Append(@, Threw(HtmlUrl(rfc[c])))]
    /\ UNCHANGED <<cache, rfc, succeeded, format, input, phase, parsed>>

\* the HTML request resolves and parseHtmlRfc throws (new JSDOM(html))
HtmlParseThrows(c) ==
    /\ pc[c] = "awaitHtml"
    /\ Fallback(c, Threw(HtmlUrl(rfc[c])))

\* the TXT is parsed with the HTML url
TxtOkHtmlUrl(c, text) ==
    /\ pc[c] = "awaitTxt"
    /\ LET doc == parseTxtRfc(text, rfc[c], HtmlUrl(rfc[c]))
       IN  /\ cache' = CacheSet(rfc[c], doc)
           /\ out' = [out EXCEPT ![c] = Resolved(doc)]
    /\ pc' = [pc EXCEPT ![c] = "done"]
    /\ log' = [log EXCEPT ![c] = Append(@, Ok(TxtUrl(rfc[c])))]
    /\ succeeded' = succeeded \cup {rfc[c]}
    /\ UNCHANGED <<rfc, format, input, phase, parsed>>

\* the TXT request resolves
TxtOk(c, text) ==
    /\ pc[c] = "awaitTxt"
    /\ LET doc == parseTxtRfc(text, rfc[c], TxtUrl(rfc[c]))
       IN  /\ cache' = CacheSet(rfc[c], doc)
           /\ out' = [out EXCEPT ![c] = Resolved(doc)]
    /\ pc' = [pc EXCEPT ![c] = "done"]
    /\ log' = [log EXCEPT ![c] = Append(@, Ok(TxtUrl(rfc[c])))]
    /\ succeeded' = succeeded \cup {rfc[c]}
    /\ UNCHANGED <<rfc, format, input, phase, parsed>>

\* the error thrown names the HTML attempt's error, not the TXT one's
TxtFailHtmlCause(c, cause) ==
    /\ pc[c] = "awaitTxt"
    /\ pc' = [pc EXCEPT ![c] = "failed"]
    /\ out' = [out EXCEPT ![c] =
                  Rejected(CompositeError(rfc[c], log[c][2].cause))]
    /\ log' = [log EXCEPT ![c] = Append(@, Err(TxtUrl(rfc[c]), cause))]
    /\ UNCHANGED <<cache, rfc, succeeded, format, input, phase, parsed>>

\* the TXT request rejects
TxtFail(c, cause) ==
    /\ pc[c] = "awaitTxt"
    /\ pc' = [pc EXCEPT ![c] = "failed"]
    /\ out' = [out EXCEPT ![c] = Rejected(CompositeError(rfc[c], cause))]
    /\ log' = [log EXCEPT ![c] = Append(@, Err(TxtUrl(rfc[c]), cause))]
    /\ UNCHANGED <<cache, rfc, succeeded, format, input, phase, parsed>>

\* the caller has the outcome; the slot is free for another call
Settle(c) ==
    /\ pc[c] \in {"done", "failed"}
    /\ pc' = [pc EXCEPT ![c] = "idle"]
    /\ rfc' = [rfc EXCEPT ![c] = ""]
    /\ out' = [out EXCEPT ![c] = Pending]
    /\ log' = [log EXCEPT ![c] = <<>>]
    /\ UNCHANGED <<cache, succeeded, format, input, phase, parsed>>

Next ==
    \/ \E c \in Calls, k \in Ids : CallHit(c, k)
    \/ \E c \in Calls, k \in Ids : CallMiss(c, k)
    \/ \E c \in Calls, html \in HtmlBodies : HtmlOk(c, html)
    \/ \E c \in Calls, cause \in Causes : HtmlFail(c, cause)
    \/ \E c \in Calls : HtmlParseThrows(c)
    \/ \E c \in Calls, text \in TxtBodies : TxtOk(c, text)
    \/ \E c \in Calls, cause \in Causes : TxtFail(c, cause)
    \/ \E c \in Calls : Settle(c)

Spec == Init /\ [][Next]_vars

(***************************************************************************)
(* The parsers alone: an input is drawn, then parsed.                      *)
(***************************************************************************)
ServiceIdle ==
    /\ cache = <<>>
    /\ pc = [c \in Calls |-> "idle"]
    /\ rfc = [c \in Calls |-> ""]
    /\ out = [c \in Calls |-> Pending]
    /\ log = [c \in Calls |-> <<>>]
    /\ succeeded = {}

InitParse ==
    /\ ServiceIdle
    /\ phase = "input"
    /\ parsed = NoDoc
    /\ \/ format = "txt" /\ input \in TxtInputs
       \/ format = "html" /\ input \in HtmlInputs

ParseId == "2616"

ParseTxt ==
    /\ phase = "input" /\ format = "txt"
    /\ parsed' = parseTxtRfc(input, ParseId, TxtUrl(ParseId))
    /\ phase' = "parsed"
    /\ UNCHANGED <<cache, pc, rfc, out, log, succeeded, format, input>>

ParseHtml ==
    /\ phase = "input" /\ format = "html"
    /\ parsed' = parseHtmlRfc(input, ParseId, HtmlUrl(ParseId))
    /\ phase' = "parsed"
    /\ UNCHANGED <<cache, pc, rfc, out, log, succeeded, format, input>>

NextParse == ParseTxt \/ ParseHtml

SpecParse == InitParse /\ [][NextParse]_vars

(***************************************************************************)
(* Properties of fetchRfc, checked under Spec.                             *)
(***************************************************************************)
IsGet(e) == e.ev = "GET"
Gets(c) == SelectSeq(log[c], IsGet)
HtmlFailed(c) ==
    /\ Len(log[c]) >= 2
    /\ log[c][2].ev \in {"ERR", "THROW"}
    /\ log[c][2].url = HtmlUrl(rfc[c])
TxtDocs(rfcNumber) ==
    {parseTxtRfc(text, rfcNumber, TxtUrl(rfcNumber)) : text \in TxtBodies}

\* C1: a call that misses the cache requests the HTML first and once, the
\* TXT at most once and only right after the HTML attempt has failed, and
\* once the call has ended (done or failed) no request is outstanding or
\* added: no variant is ever requested twice.
C1_VariantsOnceInOrder ==
    \A c \in Calls :
        /\ pc[c] \in {"awaitHtml", "awaitTxt", "failed"} => log[c] # <<>>
        /\ log[c] # <<>> =>
            /\ Gets(c) \in { <<Get(HtmlUrl(rfc[c]))>>,
                             <<Get(HtmlUrl(rfc[c])), Get(TxtUrl(rfc[c]))>> }
            /\ log[c][1] = Get(HtmlUrl(rfc[c]))
            /\ \A i \in 2..Len(log[c]) :
                   IsGet(log[c][i]) => i = 3 /\ HtmlFailed(c)
            /\ pc[c] = "awaitHtml" => Len(log[c]) = 1
            /\ pc[c] = "awaitTxt" => Len(log[c]) = 3
            /\ pc[c] \in {"done", "failed"} =>
                   /\ ~IsGet(log[c][Len(log[c])])
                   /\ Len(log[c]) \in {2, 4}
            /\ pc[c] = "failed" => Len(Gets(c)) = 2

C1_Witness ==
    \E c \in Calls :
        /\ pc[c] = "done"
        /\ Gets(c) = <<Get(HtmlUrl(rfc[c])), Get(TxtUrl(rfc[c]))>>

HtmlFetchFailedTxtOk(c) ==
    /\ Len(log[c]) = 4
    /\ log[c][2].ev = "ERR"
    /\ log[c][4].ev = "OK"

\* C2: when the HTML request fails and the TXT request succeeds, the call
\* resolves with the document parseTxtRfc builds from the TXT body, and the
\* document's metadata.url is the TXT url, not the HTML url.
C2_TxtFallbackDocument ==
    \A c \in Calls :
        HtmlFetchFailedTxtOk(c) =>
            /\ pc[c] = "done"
            /\ out[c].kind = "doc"
            /\ out[c].doc \in TxtDocs(rfc[c])
            /\ out[c].doc.metadata.url = TxtUrl(rfc[c])
            /\ out[c].doc.metadata.url # HtmlUrl(rfc[c])

C2_Witness == \E c \in Calls : HtmlFetchFailedTxtOk(c)

HtmlParseThrew(c) == Len(log[c]) >= 2 /\ log[c][2].ev = "THROW"

\* C3: when the HTML request succeeds and parseHtmlRfc throws, the
\* exception does not reach the caller: the TXT is requested next, and the
\* call ends as the TXT attempt decides, with the TXT document or with the
\* composite error of the TXT failure.
C3_ParseErrorFallsBack ==
    \A c \in Calls :
        HtmlParseThrew(c) =>
            /\ Len(log[c]) >= 3
            /\ log[c][3] = Get(TxtUrl(rfc[c]))
            /\ pc[c] \in {"awaitTxt", "done", "failed"}
            /\ pc[c] = "awaitTxt" => out[c] = Pending
            /\ pc[c] = "done" =>
                   /\ log[c][4] = Ok(TxtUrl(rfc[c]))
                   /\ out[c].kind = "doc"
                   /\ out[c].doc \in TxtDocs(rfc[c])
            /\ pc[c] = "failed" =>
                   /\ log[c][4].ev = "ERR"
                   /\ log[c][4].url = TxtUrl(rfc[c])
                   /\ out[c] = Rejected(CompositeError(rfc[c], log[c][4].cause))

C3_Witness ==
    \E c \in Calls : HtmlParseThrew(c) /\ pc[c] = "done"

BothFailed(c) ==
    /\ Len(log[c]) = 4
    /\ HtmlFailed(c)
    /\ log[c][4].ev = "ERR"
    /\ log[c][4].url = TxtUrl(rfc[c])

\* C4: when the HTML attempt and the TXT attempt both fail, the call
\* rejects with the one composite error, whose message names the requested
\* identifier and the cause of the TXT failure; a call rejects in no other
\* case and with no other error.
C4_CompositeError ==
    \A c \in Calls :
        /\ BothFailed(c) => pc[c] = "failed"
        /\ pc[c] = "failed" => BothFailed(c)
        /\ pc[c] = "failed" <=> out[c].kind = "error"
        /\ pc[c] = "failed" =>
               out[c].message =
                   <<"Failed to fetch RFC ", rfc[c], ": ", log[c][4].cause>>

C4_Witness ==
    \E c \in Calls :
        /\ pc[c] = "failed"
        /\ log[c][2].ev = "ERR"
        /\ log[c][2].cause # log[c][4].cause

\* C8: first writer wins: once the cache holds an entry for an identifier
\* the entry is never replaced, and every call resolved for that identifier
\* resolves with the cached entry.
C8_FirstWriterWins ==
    /\ [](\A c \in Calls :
            pc[c] = "done" =>
                /\ rfc[c] \in DOMAIN cache
                /\ out[c].doc = cache[rfc[c]])
    /\ [][\A k \in DOMAIN cache :
            k \in DOMAIN cache' /\ cache'[k] = cache[k]]_vars

C10_CacheInv ==
    \A k \in DOMAIN cache :
        /\ k \in Ids
        /\ k \in succeeded
        /\ cache[k].metadata.number = k

C10_CacheStep ==
    \A c \in Calls :
        /\ (pc[c] # "failed" /\ pc'[c] = "failed") => cache' = cache
        /\ (pc[c] = "idle" /\ pc'[c] # "idle") =>
               /\ cache' = cache
               /\ IF rfc'[c] \in DOMAIN cache
                  THEN /\ pc'[c] = "done"
                       /\ log'[c] = <<>>
                       /\ out'[c] = Resolved(cache[rfc'[c]])
                  ELSE /\ pc'[c] = "awaitHtml"
                       /\ log'[c] = <<Get(HtmlUrl(rfc'[c]))>>

\* C10: the cache holds an entry for k only if some call for k resolved,
\* and the entry's metadata.number is k; a call that fails leaves the cache
\* as it was, so that k is still not cached for the next call if it was
\* not before; a call that finds k cached resolves with the entry and makes
\* no request, and one that does not requests the HTML.
C10_CacheFrame == []C10_CacheInv /\ [][C10_CacheStep]_vars

C10_Witness ==
    \E c, d \in Calls :
        /\ c # d
        /\ pc[c] = "failed"
        /\ pc[d] = "done" /\ log[d] = <<>> /\ rfc[d] # rfc[c]
        /\ rfc[c] \notin DOMAIN cache

(***************************************************************************)
(* Properties of the parsers, checked under SpecParse.                     *)
(***************************************************************************)
Titles(sections) == [n \in 1..Len(sections) |-> sections[n].title]
Contents(sections) == [n \in 1..Len(sections) |-> sections[n].content]

\* C5: no section of a returned document has an empty title, in either
\* pipeline.
C5_NoEmptyTitle ==
    phase = "parsed" =>
        \A n \in 1..Len(parsed.sections) : parsed.sections[n].title # <<>>

InputLines == Split(input)
HeaderAt(i) == i \in 1..Len(InputLines) /\ IsHeader(InputLines[i])
HasBody(i) == HeaderAt(i) /\ i < Len(InputLines) /\ ~HeaderAt(i + 1)
BodyEnd(i) ==
    CHOOSE e \in i..Len(InputLines) :
        /\ \A m \in (i + 1)..e : ~HeaderAt(m)
        /\ e = Len(InputLines) \/ HeaderAt(e + 1)
HeadersWithBody == Ascending({i \in 1..Len(InputLines) : HasBody(i)})

\* C6: in the text pipeline a header line directly followed by another
\* header line, or by the end of the input, gives no section; every header
\* line followed by at least one other line gives exactly one section, in
\* document order, titled by the header and holding the lines up to the
\* next header.
C6_HeaderWithoutBodyDropped ==
    (phase = "parsed" /\ format = "txt") =>
        /\ Len(parsed.sections) = Len(HeadersWithBody)
        /\ \A n \in 1..Len(HeadersWithBody) :
               LET i == HeadersWithBody[n]
               IN  /\ parsed.sections[n].title = Trim(Capture(InputLines[i]))
                   /\ parsed.sections[n].content =
                          Join(SubSeq(InputLines, i + 1, BodyEnd(i)))

C6_Witness ==
    /\ phase = "parsed" /\ format = "txt"
    /\ Len(InputLines) = 4
    /\ HeaderAt(1) /\ HeaderAt(2) /\ ~HeaderAt(3) /\ HeaderAt(4)
    /\ Trim(Capture(InputLines[1])) # Trim(Capture(InputLines[2]))
    /\ Titles(parsed.sections) = <<Trim(Capture(InputLines[2]))>>

HasText(tokens) ==
    \E m \in 1..Len(tokens) :
        \E i \in 1..Len(tokens[m].text) : tokens[m].text[i] \notin Whitespace
IsLeaf(token) == token \in Leaves
WithoutSections(tokens) == SelectSeq(tokens, IsLeaf)

SectionEls == QuerySelectorAllSection(input, 1, Len(input))
Within(i, tag) == {m \in (i + 1)..(CloseOf(input, i) - 1) : input[m].tag = tag}
FirstOf(S) == CHOOSE m \in S : \A o \in S : m <= o
TitleByRank(i) ==
    IF Within(i, "h2") # {} THEN Trim(input[FirstOf(Within(i, "h2"))].text)
    ELSE IF Within(i, "h3") # {} THEN Trim(input[FirstOf(Within(i, "h3"))].text)
    ELSE IF Within(i, "h4") # {} THEN Trim(input[FirstOf(Within(i, "h4"))].text)
    ELSE <<>>
HasTitleByRank(i) == TitleByRank(i) # <<>>
ByRank == SelectSeq(SectionEls, HasTitleByRank)

Headings(i) == Within(i, "h2") \cup Within(i, "h3") \cup Within(i, "h4")
TitleByOrder(i) ==
    IF Headings(i) = {} THEN <<>> ELSE Trim(input[FirstOf(Headings(i))].text)
HasTitleByOrder(i) == TitleByOrder(i) # <<>>
ByOrder == SelectSeq(SectionEls, HasTitleByOrder)

====
